---------------------------- MODULE Spec2Model ----------------------------
(***************************************************************************)
(* A model of the sound processing unit (Spu) of src/src/spu.cpp: the      *)
(* sixteen-channel mixer (runSample), its register writes, and the double  *)
(* buffer that hands frames from the emulation thread (runSample) to the   *)
(* audio thread (getSamples).                                              *)
(*                                                                         *)
(* TLC's integers are 32 bits wide and signed.  A uint32_t that can have   *)
(* bit 31 set (soundCnt, a write's mask and value, a packed frame) is      *)
(* therefore a pair <<hi, lo>> of its two 16-bit halves; soundSad,         *)
(* soundLen and soundCurrent stay below 2^31 in every state of the model   *)
(* and are plain integers.                                                 *)
(***************************************************************************)
EXTENDS Integers, Sequences, FiniteSets, TLC

(***************************************************************************)
(* Bounds of the model.                                                    *)
(***************************************************************************)
\* runSample calls in one behaviour of SpecChan
MaxTicks == 2
\* runSample calls in one behaviour of SpecTimer
MaxTimerTicks == 128

(***************************************************************************)
(* Bit operations on 16-bit halves and on 32-bit words.                    *)
(***************************************************************************)
RECURSIVE BitAndN(_, _, _)
BitAndN(a, b, n) ==
    IF n = 0 THEN 0
    ELSE (a % 2) * (b % 2) + 2 * BitAndN(a \div 2, b \div 2, n - 1)

\* the AND of two 4-bit digits, tabulated once
AndDigit == [a \in 0..15 |-> [b \in 0..15 |-> BitAndN(a, b, 4)]]

And16(a, b) ==
    AndDigit[a % 16][b % 16]
    + 16 * AndDigit[(a \div 16) % 16][(b \div 16) % 16]
    + 256 * AndDigit[(a \div 256) % 16][(b \div 256) % 16]
    + 4096 * AndDigit[a \div 4096][b \div 4096]
Not16(a) == 65535 - a
Or16(a, b) == a + b - And16(a, b)

And32(a, b) == <<And16(a[1], b[1]), And16(a[2], b[2])>>
Not32(a) == <<Not16(a[1]), Not16(a[2])>>
Or32(a, b) == <<Or16(a[1], b[1]), Or16(a[2], b[2])>>

\* a word below 2^31 as an integer, and back
ToInt(w) == w[1] * 65536 + w[2]
FromInt(n) == <<n \div 65536, n % 65536>>

\* bit k (0..15) of a 16-bit half
Bit16(a, k) == (a \div (2 ^ k)) % 2 = 1

\* (reg & ~mask) | (value & mask)
Masked16(reg, mask, value) == Or16(And16(reg, Not16(mask)), And16(value, mask))
Masked32(reg, mask, value) == Or32(And32(reg, Not32(mask)), And32(value, mask))

\* floor(x * p / 2^k), the value of (x * p) >> k in the code's int64_t,
\* computed without leaving 32 bits: x = q * 2^k + r with 0 <= r < 2^k
MulShr(x, p, k) == (x \div (2 ^ k)) * p + ((x % (2 ^ k)) * p) \div (2 ^ k)

(***************************************************************************)
(* The lookup tables.                                                      *)
(***************************************************************************)
indexTable == <<-1, -1, -1, -1, 2, 4, 6, 8>>

adpcmTable ==
    <<7, 8, 9, 10, 11, 12, 13, 14, 16, 17, 19, 21,
      23, 25, 28, 31, 34, 37, 41, 45, 50, 55, 60, 66,
      73, 80, 88, 97, 107, 118, 130, 143, 157, 173, 190, 209,
      230, 253, 279, 307, 337, 371, 408, 449, 494, 544, 598, 658,
      724, 796, 876, 963, 1060, 1166, 1282, 1411, 1552, 1707, 1878, 2066,
      2272, 2499, 2749, 3024, 3327, 3660, 4026, 4428, 4871, 5358, 5894, 6484,
      7132, 7845, 8630, 9493, 10442, 11487, 12635, 13899, 15289, 16818, 18500, 20350,
      22385, 24623, 27086, 29794, 32767>>

\* adpcmTable[k]; the code never reads it with k outside 0..88 (claim C5),
\* and a read outside the table is given the last entry here
AdpcmStep(k) == IF k \in 0..88 THEN adpcmTable[k + 1] ELSE adpcmTable[89]

\* indexTable[k]
IndexDelta(k) == indexTable[k + 1]

(***************************************************************************)
(* The channels.  A behaviour drives one of them: a channel the emulated   *)
(* program uses for PCM, one it uses for ADPCM, a pulse channel (8..13) or *)
(* a noise channel (14, 15).                                               *)
(***************************************************************************)
Channels == 0..15
DrivenChannels == {0, 1, 8, 14}

\* the formats the emulated program writes to a channel's SOUNDCNT
Formats(ch) == IF ch = 0 THEN {0, 1} ELSE IF ch = 1 THEN {2} ELSE {3}

\* The memory behind memory->read: every aligned 32-bit word of it holds
\* memWord, one of these (little endian: 0x00001234 is bytes 34 12 00 00)
MemWords ==
    { <<0, 4660>>,        \* 0x00001234: predictor 0x1234, index 0
      <<127, 32767>>,     \* 0x007F7FFF: predictor 32767, index field 127
      <<0, 32768>> }      \* 0x00008000: predictor field 0x8000, index 0

VARIABLES
    \* registers (spu.h 139-145)
    soundCnt, soundSad, soundTmr, soundPnt, soundLen, mainSoundCnt, soundBias,
    \* channel state (spu.h 120-127)
    soundCurrent, soundTimers, adpcmValue, adpcmIndex, adpcmToggle,
    adpcmLoopValue, adpcmLoopIndex, dutyCycles, noiseValues,
    \* the memory's contents and the channel the emulated program drives
    memWord, active,
    \* history: the last operation, the number of runSample calls, per
    \* channel the predictor and index the ADPCM decoder had when its address
    \* last stood at the loop point (set, value, index), and the channels
    \* that ended one-shot and were not written enabled since
    ev, ticks, loopSeen, ended,
    \* the buffer exchange (spu.h 96-101): the two buffers are blocks of the
    \* heap, 0 is nullptr
    bufferIn, bufferOut, bufferSize, bufferPointer, ready, mutex, heap,
    \* Settings::getLimitFps()
    limitFps,
    \* the emulation thread inside runSample: its place, the mixed frame, and
    \* the swap's local buffer
    ppc, pframe, pbuf,
    \* the audio thread inside getSamples: its place, count, wait, the loop
    \* index, memcpy's source, the block out, and what the last call returned
    cpc, ccount, cwait, ci, csrc, cout,
    \* history of the exchange: the number of getSamples calls; the blocks
    \* that swaps handed over since the buffers were allocated; the block the last swap put in the out buffer
    \* (set), and whether ready was set for it and not cleared since (fresh);
    \* what the running call expects: the frame a fallback repeats, the out
    \* buffer when the wait gave up, and whether the call found ready set for
    \* a block of its size (valid); whether the producer swapped or set ready
    \* during the running call; and the access that left the language's
    \* defined behaviour, after which the model stops
    calls, handed, lastOut, cexpect, cswapped, fault

regVars == <<soundCnt, soundSad, soundTmr, soundPnt, soundLen, mainSoundCnt, soundBias>>
runVars == <<soundCurrent, soundTimers, adpcmValue, adpcmIndex, adpcmToggle,
             adpcmLoopValue, adpcmLoopIndex, dutyCycles, noiseValues>>
envVars == <<memWord, active, limitFps>>
bufVars == <<bufferIn, bufferOut, bufferSize, bufferPointer, ready, mutex, heap>>
thrVars == <<ppc, pframe, pbuf, cpc, ccount, cwait, ci, csrc, cout>>
histVars == <<calls, handed, lastOut, cexpect, cswapped, fault>>
vars == <<regVars, runVars, envVars, ev, ticks, loopSeen, ended, bufVars, thrVars, histVars>>


(***************************************************************************)
(* memory->read<T>(false, address)                                         *)
(***************************************************************************)
Read32(addr) == memWord

Read8(addr) ==
    CASE addr % 4 = 0 -> memWord[2] % 256
      [] addr % 4 = 1 -> memWord[2] \div 256
      [] addr % 4 = 2 -> memWord[1] % 256
      [] OTHER        -> memWord[1] \div 256

\* read<int8_t>
Read8s(addr) == IF Read8(addr) >= 128 THEN Read8(addr) - 256 ELSE Read8(addr)

\* read<int16_t>; an odd address reads the halfword it lies in
Read16s(addr) ==
    LET h == IF addr % 4 < 2 THEN memWord[2] ELSE memWord[1]
    IN  IF h >= 32768 THEN h - 65536 ELSE h

(***************************************************************************)
(* The fields of a SOUNDCNT word <<hi, lo>>.                                *)
(***************************************************************************)
Enabled(c)    == Bit16(c[1], 15)            \* BIT(31)
Format(c)     == (c[1] \div 8192) % 4       \* 0x60000000 >> 29
RepeatMode(c) == (c[1] \div 2048) % 4       \* 0x18000000 >> 27
Duty(c)       == (c[1] \div 256) % 8        \* 0x07000000 >> 24
Pan(c)        == c[1] % 128                 \* 0x007F0000 >> 16
DivShift(c)   == (c[2] \div 256) % 4        \* 0x00000300 >> 8
MulFactor(c)  == c[2] % 128                 \* 0x0000007F

\* soundCnt[i] &= ~BIT(31)
ClearEnable(c) == <<c[1] % 32768, c[2]>>

\* soundSad[i] + soundPnt[i] * 4 and soundSad[i] + (soundPnt[i] + soundLen[i]) * 4
LoopAddr(i) == soundSad[i] + soundPnt[i] * 4
EndAddr(i)  == soundSad[i] + (soundPnt[i] + soundLen[i]) * 4

(***************************************************************************)
(* One channel's state as runSample's loop body works on it.  overflow is  *)
(* the loop's local.  The rest is history: advances, hitEnd and wrapped    *)
(* record what the tick did (the passes of the reload loop, a one-shot     *)
(* end, a loop wrap), seen is loopSeen[i], wrapOk says that every wrap of  *)
(* the tick restored the predictor and index recorded in seen, and nibOk   *)
(* that every ADPCM decode of the tick that took a low nibble left the     *)
(* address and selected the high nibble, and every one that took a high    *)
(* nibble moved the address by 1 and selected the low nibble.              *)
(***************************************************************************)
Chan(i) ==
    [ cnt   |-> soundCnt[i],
      cur   |-> soundCurrent[i],
      tim   |-> soundTimers[i],
      val   |-> adpcmValue[i],
      idx   |-> adpcmIndex[i],
      tog   |-> adpcmToggle[i],
      lval  |-> adpcmLoopValue[i],
      lidx  |-> adpcmLoopIndex[i],
      duty  |-> IF i \in 8..13 THEN dutyCycles[i - 8] ELSE 0,
      noise |-> IF i >= 14 THEN noiseValues[i - 14] ELSE 0,
      overflow |-> FALSE,
      advances |-> 0,
      hitEnd   |-> FALSE,
      wrapped  |-> FALSE,
      seen     |-> loopSeen[i],
      wrapOk   |-> TRUE,
      nibOk    |-> TRUE ]

\* the sample a channel plays this tick (spu.cpp 121-160)
SampleData(i) ==
    LET fmt == Format(soundCnt[i])
    IN  CASE fmt = 0 -> Read8s(soundCurrent[i]) * 256
          [] fmt = 1 -> Read16s(soundCurrent[i])
          [] fmt = 2 -> adpcmValue[i]
          [] OTHER ->
                IF i \in 8..13
                THEN IF dutyCycles[i - 8] < 7 - Duty(soundCnt[i]) THEN -32767 ELSE 32767
                ELSE IF i >= 14
                     THEN IF Bit16(noiseValues[i - 14], 15) THEN -32767 ELSE 32767
                     ELSE 0

\* the 4-bit code at the current address (spu.cpp 187-188)
AdpcmData(c) ==
    IF c.tog THEN Read8(c.cur) \div 16 ELSE Read8(c.cur) % 16

\* the sample difference (spu.cpp 191-194)
AdpcmDiff(idx, data) ==
    AdpcmStep(idx) \div 8
    + (IF data % 2 = 1 THEN AdpcmStep(idx) \div 4 ELSE 0)
    + (IF (data \div 2) % 2 = 1 THEN AdpcmStep(idx) \div 2 ELSE 0)
    + (IF (data \div 4) % 2 = 1 THEN AdpcmStep(idx) ELSE 0)

\* the predictor after the difference is applied (spu.cpp 197-206)
AdpcmNextValue(val, diff, data) ==
    IF data >= 8
    THEN IF val + diff > 32767 THEN 32767 ELSE val + diff
    ELSE IF val - diff < -32767 THEN -32767 ELSE val - diff

\* the next step index (spu.cpp 209-211)
AdpcmNextIndex(idx, data) ==
    LET n == idx + IndexDelta(data % 8)
    IN  IF n < 0 THEN 0 ELSE IF n > 88 THEN 88 ELSE n

\* one ADPCM decode (spu.cpp 184-224)
AdpcmDecode(i, c) ==
    LET data == AdpcmData(c)
        val  == AdpcmNextValue(c.val, AdpcmDiff(c.idx, data), data)
        idx  == AdpcmNextIndex(c.idx, data)
        tog  == ~c.tog
        cur  == IF ~tog THEN c.cur + 1 ELSE c.cur
        save == cur = LoopAddr(i) /\ ~tog
    IN  [c EXCEPT !.val = val, !.idx = idx, !.tog = tog, !.cur = cur,
                  !.lval = IF save THEN val ELSE c.lval,
                  !.lidx = IF save THEN idx ELSE c.lidx]

\* the noise generator's step (spu.cpp 235-242)
NoiseStep(n) ==
    LET cleared == n % 32768
    IN  IF cleared % 2 = 1
        THEN Or16(32768, (cleared \div 2) + 24576 - 2 * And16(cleared \div 2, 24576))
        ELSE cleared \div 2

\* the format's step on a timer reload (spu.cpp 175-246)
Advance(i, fmt, c) ==
    CASE fmt \in {0, 1} -> [c EXCEPT !.cur = c.cur + 1 + fmt]
      [] fmt = 2 -> AdpcmDecode(i, c)
      [] OTHER ->
            IF i \in 8..13 THEN [c EXCEPT !.duty = (c.duty + 1) % 8]
            ELSE IF i >= 14 THEN [c EXCEPT !.noise = NoiseStep(c.noise)]
            ELSE c

\* the end-of-data handling without the one-shot branch
EndOfDataKeepsEnable(i, fmt, c) ==
    IF fmt # 3 /\ c.cur = EndAddr(i) /\ RepeatMode(c.cnt) = 1
    THEN [c EXCEPT !.cur = LoopAddr(i),
                   !.val = IF fmt = 2 THEN c.lval ELSE c.val,
                   !.idx = IF fmt = 2 THEN c.lidx ELSE c.idx,
                   !.tog = IF fmt = 2 THEN FALSE ELSE c.tog]
    ELSE c

\* repeat or end the sound at the end of the data (spu.cpp 248-267)
EndOfData(i, fmt, c) ==
    IF fmt # 3 /\ c.cur = EndAddr(i)
    THEN IF RepeatMode(c.cnt) = 1
         THEN [c EXCEPT !.cur = LoopAddr(i),
                        !.val = IF fmt = 2 THEN c.lval ELSE c.val,
                        !.idx = IF fmt = 2 THEN c.lidx ELSE c.idx,
                        !.tog = IF fmt = 2 THEN FALSE ELSE c.tog]
         ELSE [c EXCEPT !.cnt = ClearEnable(c.cnt)]
    ELSE c

\* The history of one pass of the reload loop: c1 is the channel after the
\* format's step, c2 after the end-of-data handling.  The end is reached
\* when the step leaves the address at EndAddr; seen follows the address to
\* the loop point, by a decode before the wrap is judged and by the wrap.
Recorded(i, fmt, c1, c2) ==
    LET atEnd == fmt # 3 /\ c1.cur = EndAddr(i)
        loops == RepeatMode(c1.cnt) = 1
        seen1 == IF fmt = 2 /\ c1.cur = LoopAddr(i) /\ ~c1.tog
                 THEN <<TRUE, c1.val, c1.idx>> ELSE c1.seen
    IN  [c2 EXCEPT
           !.hitEnd  = c1.hitEnd \/ (atEnd /\ ~loops),
           !.wrapped = c1.wrapped \/ (atEnd /\ loops),
           !.wrapOk  = c1.wrapOk /\
                       (atEnd /\ loops =>
                          /\ c2.cur = LoopAddr(i)
                          /\ fmt = 2 => ~c2.tog
                          /\ fmt = 2 /\ seen1[1] =>
                                c2.val = seen1[2] /\ c2.idx = seen1[3]),
           !.seen    = IF fmt = 2 /\ atEnd /\ loops
                       THEN <<TRUE, c2.val, c2.idx>> ELSE seen1]

\* the history of one format step from c0 to c1
Stepped(fmt, c0, c1) ==
    [c1 EXCEPT !.nibOk = c0.nibOk /\
                  (fmt = 2 => IF c0.tog THEN ~c1.tog /\ c1.cur = c0.cur + 1
                                        ELSE c1.tog /\ c1.cur = c0.cur)]

\* one pass of the loop: reload the timer, advance, end of data
\* (spu.cpp 171-267)
ReloadPass(i, fmt, c) ==
    LET tim == (c.tim + soundTmr[i]) % 65536
        c0  == [c EXCEPT !.tim = tim, !.overflow = tim < soundTmr[i],
                         !.advances = c.advances + 1]
        c1  == Stepped(fmt, c0, Advance(i, fmt, c0))
    IN  Recorded(i, fmt, c1, EndOfData(i, fmt, c1))

\* the passes of the loop while overflow is set, at most 2^k of them; the
\* halves keep the evaluation k deep where the loop runs 2^k times
RECURSIVE ReloadPasses(_, _, _, _)
ReloadPasses(k, i, fmt, c) ==
    IF ~c.overflow THEN c
    ELSE IF k = 0 THEN ReloadPass(i, fmt, c)
    ELSE ReloadPasses(k - 1, i, fmt, ReloadPasses(k - 1, i, fmt, c))

\* a timer overflow handled once, by an if in the place of the while
ReloadOnce(i, fmt, c) ==
    IF ~c.overflow THEN c ELSE ReloadPass(i, fmt, c)

\* while (overflow) { reload; advance; end of data } (spu.cpp 169-268)
RECURSIVE ReloadLoop(_, _, _)
ReloadLoop(i, fmt, c) ==
    LET r == ReloadPasses(10, i, fmt, c)
    IN  IF r.overflow THEN ReloadLoop(i, fmt, r) ELSE r

\* a disabled channel is skipped (spu.cpp 118-119)
Skipped(i) == ~Enabled(soundCnt[i])

\* the channel after one tick (spu.cpp 115-268)
TickChannel(i) ==
    IF Skipped(i) THEN Chan(i)
    ELSE LET tim == (soundTimers[i] + 512) % 65536
         IN  ReloadLoop(i, Format(soundCnt[i]),
                        [Chan(i) EXCEPT !.tim = tim, !.overflow = tim < 512])

\* the contribution with every selector taken at its face value: 127 as
\* 127 and divider 3 as a shift by 4 - 3
ContributionFaceValue(i) ==
    IF Skipped(i) THEN <<0, 0>>
    ELSE LET cnt  == TickChannel(i).cnt
             data == SampleData(i) * (2 ^ (4 - DivShift(cnt))) * MulFactor(cnt)
         IN  <<MulShr(data, 128 - Pan(cnt), 10), MulShr(data, Pan(cnt), 10)>>

\* what the channel adds to <<sampleLeft, sampleRight>> (spu.cpp 270-287)
Contribution(i) ==
    IF Skipped(i) THEN <<0, 0>>
    ELSE LET cnt  == TickChannel(i).cnt
             div  == IF DivShift(cnt) = 3 THEN 4 ELSE DivShift(cnt)
             mul  == IF MulFactor(cnt) = 127 THEN 128 ELSE MulFactor(cnt)
             pan  == IF Pan(cnt) = 127 THEN 128 ELSE Pan(cnt)
             \* data <<= 4 - divShift;  data = (data << 7) * mulFactor / 128
             data == SampleData(i) * (2 ^ (4 - div)) * mul
         IN  \* ((data << 7) * f / 128) >> 10
             <<MulShr(data, 128 - pan, 10), MulShr(data, pan, 10)>>

RECURSIVE SumContribution(_, _)
SumContribution(n, side) ==
    IF n = 0 THEN 0 ELSE Contribution(n - 1)[side] + SumContribution(n - 1, side)

\* the output of one side without the clipping
OutputUnclipped(sum) ==
    LET vol == IF mainSoundCnt % 128 = 127 THEN 128 ELSE mainSoundCnt % 128
    IN  (MulShr(sum, vol, 21) + soundBias - 512) * 32

\* master volume, bias, clipping and expansion of one side (spu.cpp 292-309)
Output(sum) ==
    LET vol     == IF mainSoundCnt % 128 = 127 THEN 128 ELSE mainSoundCnt % 128
        \* ((sum << 13) * masterVol / 128 / 64) >> 21
        biased  == MulShr(sum, vol, 21) + soundBias
        clipped == IF biased < 0 THEN 0 ELSE IF biased > 1023 THEN 1023 ELSE biased
    IN  (clipped - 512) * 32

\* (sampleRight << 16) | (sampleLeft & 0xFFFF), as a uint32_t (spu.cpp 314)
Pack(left, right) == <<right % 65536, left % 65536>>

\* the frame runSample mixes in the current state (spu.cpp 111-309)
MixedFrame == Pack(Output(SumContribution(16, 1)), Output(SumContribution(16, 2)))

(***************************************************************************)
(* The mixing part of runSample (spu.cpp 111-309): every channel's tick.   *)
(***************************************************************************)
\* The last operation: its name and channel; for a register write the
\* caller's mask, as a 32-bit word; for a SOUNDCNT write whether it
\* reloaded the channel (reload) and whether the stored enable bit went from
\* 0 to 1 (rose); for a tick whether a channel ended one-shot (hitEnd) or
\* wrapped, whether every wrap restored the recorded ADPCM state, and
\* whether every ADPCM decode took its nibble in turn.
NoEvent == [op |-> "none", ch |-> -1, mask |-> <<0, 0>>, reload |-> FALSE,
            rose |-> FALSE, hitEnd |-> FALSE, wrapped |-> FALSE, wrapOk |-> TRUE,
            nibOk |-> TRUE]

Event(op, ch) == [NoEvent EXCEPT !.op = op, !.ch = ch]

MixChannels ==
    LET t == [i \in Channels |-> TickChannel(i)]
    IN  /\ soundCnt'       = [i \in Channels |-> t[i].cnt]
        /\ soundCurrent'   = [i \in Channels |-> t[i].cur]
        /\ soundTimers'    = [i \in Channels |-> t[i].tim]
        /\ adpcmValue'     = [i \in Channels |-> t[i].val]
        /\ adpcmIndex'     = [i \in Channels |-> t[i].idx]
        /\ adpcmToggle'    = [i \in Channels |-> t[i].tog]
        /\ adpcmLoopValue' = [i \in Channels |-> t[i].lval]
        /\ adpcmLoopIndex' = [i \in Channels |-> t[i].lidx]
        /\ dutyCycles'     = [k \in 0..5 |-> t[k + 8].duty]
        /\ noiseValues'    = [k \in 0..1 |-> t[k + 14].noise]
        /\ loopSeen'       = [i \in Channels |-> t[i].seen]
        /\ ended' = {i \in Channels : t[i].hitEnd \/ (i \in ended /\ Skipped(i))}
        /\ ev' = [Event("runSample", -1) EXCEPT
                    !.hitEnd  = \E i \in Channels : t[i].hitEnd,
                    !.wrapped = \E i \in Channels : t[i].wrapped,
                    !.wrapOk  = \A i \in Channels : t[i].wrapOk,
                    !.nibOk   = \A i \in Channels : t[i].nibOk]
        /\ UNCHANGED <<soundSad, soundTmr, soundPnt, soundLen, mainSoundCnt, soundBias>>

(***************************************************************************)
(* The register writes (spu.cpp 347-424).  The emulated program writes     *)
(* between two runSample calls, on the emulation thread.                   *)
(***************************************************************************)
Full32 == <<65535, 65535>>
LowHalf32 == <<0, 65535>>
HighHalf32 == <<65535, 0>>

\* a value with every bit set
AllOnes32 == <<65535, 65535>>

\* a SOUNDCNT value: enable, format, repeat mode, pan 64, volume 127
CntValue(en, fmt, rep) == <<en * 32768 + fmt * 8192 + rep * 2048 + 64, 127>>

\* <<mask, value>> of the SOUNDCNT writes: whole-word writes, and writes of
\* the low half whose value carries bit 31 or not
CntWrites(ch) ==
    {<<Full32, CntValue(en, fmt, rep)>> :
        en \in {0, 1}, fmt \in Formats(ch), rep \in {1, 2}}
    \cup {<<LowHalf32, CntValue(en, 0, 1)>> : en \in {0, 1}}

SadValues  == {<<0, 256>>, <<0, 259>>}
\* 0xFF80: four reloads in a tick
TmrValues  == {65408}
PntValues  == {0, 1}
LenValues  == {<<0, 0>>, <<0, 1>>}
BiasValues == {512}

\* a SOUNDCNT mask that lets every bit through
SoundCntMaskAll == <<65535, 65535>>

\* the bits of SOUNDCNT that exist: 0xFF7F837F (spu.cpp 382)
SoundCntMask == <<65407, 33663>>

\* the enable bit changes from 0 to 1 (spu.cpp 350)
EnableTransition(cnt, mask, value) == ~Enabled(cnt) /\ Enabled(value)

\* the format the reload switches on (spu.cpp 355)
ReloadFormat(cnt, mask, value) == Format(cnt)

\* (int16_t)header (spu.cpp 361)
HeaderValue(header) == IF header[2] >= 32768 THEN header[2] - 65536 ELSE header[2]

\* the index field taken as it is read, without the limit of 88
HeaderIndexUnclamped(header) == header[1] % 128

\* (header & 0x007F0000) >> 16, at most 88 (spu.cpp 362-363)
HeaderIndex(header) == IF header[1] % 128 > 88 THEN 88 ELSE header[1] % 128

WriteSoundCnt(ch, mask, value) ==
    LET reload == EnableTransition(soundCnt[ch], mask, value)
        fmt    == ReloadFormat(soundCnt[ch], mask, value)
        adpcm  == reload /\ fmt = 2
        header == Read32(soundSad[ch])
        cur    == IF adpcm THEN soundSad[ch] + 4 ELSE soundSad[ch]
    IN  /\ ppc = "idle"
        /\ soundCurrent' = IF reload THEN [soundCurrent EXCEPT ![ch] = cur] ELSE soundCurrent
        /\ soundTimers'  = IF reload THEN [soundTimers EXCEPT ![ch] = soundTmr[ch]]
                           ELSE soundTimers
        /\ adpcmValue'   = IF adpcm THEN [adpcmValue EXCEPT ![ch] = HeaderValue(header)]
                           ELSE adpcmValue
        /\ adpcmIndex'   = IF adpcm THEN [adpcmIndex EXCEPT ![ch] = HeaderIndex(header)]
                           ELSE adpcmIndex
        /\ adpcmToggle'  = IF adpcm THEN [adpcmToggle EXCEPT ![ch] = FALSE] ELSE adpcmToggle
        /\ dutyCycles'   = IF reload /\ fmt = 3 /\ ch \in 8..13
                           THEN [dutyCycles EXCEPT ![ch - 8] = 0] ELSE dutyCycles
        /\ noiseValues'  = IF reload /\ fmt = 3 /\ ch >= 14
                           THEN [noiseValues EXCEPT ![ch - 14] = 32767] ELSE noiseValues
        /\ soundCnt' = [soundCnt EXCEPT
                          ![ch] = Masked32(@, And32(mask, SoundCntMask), value)]
        /\ loopSeen' = IF reload
                       THEN [loopSeen EXCEPT ![ch] =
                               IF adpcm /\ cur = LoopAddr(ch)
                               THEN <<TRUE, HeaderValue(header), HeaderIndex(header)>>
                               ELSE <<FALSE, 0, 0>>]
                       ELSE loopSeen
        /\ ended' = IF Enabled(soundCnt'[ch]) THEN ended \ {ch} ELSE ended
        /\ ev' = [Event("writeSoundCnt", ch) EXCEPT
                    !.mask = mask,
                    !.reload = reload,
                    !.rose = ~Enabled(soundCnt[ch]) /\ Enabled(soundCnt'[ch])]
        /\ UNCHANGED <<soundSad, soundTmr, soundPnt, soundLen, mainSoundCnt, soundBias,
                       adpcmLoopValue, adpcmLoopIndex, envVars, ticks,
                       bufVars, thrVars, histVars>>

\* a write that moves the loop point starts a new history of it
MovedLoop(ch, sad, pnt) ==
    IF sad + pnt * 4 = LoopAddr(ch) THEN loopSeen
    ELSE [loopSeen EXCEPT ![ch] = <<FALSE, 0, 0>>]

WriteSoundSad(ch, mask, value) ==
    LET sad == ToInt(Masked32(FromInt(soundSad[ch]), And32(mask, <<2047, 65532>>), value))
    IN  /\ ppc = "idle"
        /\ soundSad' = [soundSad EXCEPT ![ch] = sad]
        /\ loopSeen' = MovedLoop(ch, sad, soundPnt[ch])
        /\ ev' = [Event("writeSoundSad", ch) EXCEPT !.mask = mask]
        /\ UNCHANGED <<soundCnt, soundTmr, soundPnt, soundLen, mainSoundCnt, soundBias,
                       runVars, envVars, ticks, ended, bufVars, thrVars, histVars>>

WriteSoundTmr(ch, mask, value) ==
    /\ ppc = "idle"
    /\ soundTmr' = [soundTmr EXCEPT ![ch] = Masked16(@, mask, value)]
    /\ ev' = [Event("writeSoundTmr", ch) EXCEPT !.mask = <<0, mask>>]
    /\ UNCHANGED <<soundCnt, soundSad, soundPnt, soundLen, mainSoundCnt, soundBias,
                   runVars, envVars, ticks, loopSeen, ended, bufVars, thrVars, histVars>>

WriteSoundPnt(ch, mask, value) ==
    LET pnt == Masked16(soundPnt[ch], mask, value)
    IN  /\ ppc = "idle"
        /\ soundPnt' = [soundPnt EXCEPT ![ch] = pnt]
        /\ loopSeen' = MovedLoop(ch, soundSad[ch], pnt)
        /\ ev' = [Event("writeSoundPnt", ch) EXCEPT !.mask = <<0, mask>>]
        /\ UNCHANGED <<soundCnt, soundSad, soundTmr, soundLen, mainSoundCnt, soundBias,
                       runVars, envVars, ticks, ended, bufVars, thrVars, histVars>>

WriteSoundLen(ch, mask, value) ==
    /\ ppc = "idle"
    /\ soundLen' = [soundLen EXCEPT ![ch] =
                      ToInt(Masked32(FromInt(@), And32(mask, <<63, 65535>>), value))]
    /\ ev' = [Event("writeSoundLen", ch) EXCEPT !.mask = mask]
    /\ UNCHANGED <<soundCnt, soundSad, soundTmr, soundPnt, mainSoundCnt, soundBias,
                   runVars, envVars, ticks, loopSeen, ended, bufVars, thrVars, histVars>>

WriteMainSoundCnt(mask, value) ==
    /\ ppc = "idle"
    /\ mainSoundCnt' = Masked16(mainSoundCnt, And16(mask, 49023), value)
    /\ ev' = [Event("writeMainSoundCnt", -1) EXCEPT !.mask = <<0, mask>>]
    /\ UNCHANGED <<soundCnt, soundSad, soundTmr, soundPnt, soundLen, soundBias,
                   runVars, envVars, ticks, loopSeen, ended, bufVars, thrVars, histVars>>

WriteSoundBias(mask, value) ==
    /\ ppc = "idle"
    /\ soundBias' = Masked16(soundBias, And16(mask, 1023), value)
    /\ ev' = [Event("writeSoundBias", -1) EXCEPT !.mask = <<0, mask>>]
    /\ UNCHANGED <<soundCnt, soundSad, soundTmr, soundPnt, soundLen, mainSoundCnt,
                   runVars, envVars, ticks, loopSeen, ended, bufVars, thrVars, histVars>>

(***************************************************************************)
(* runSample up to its write to the buffer (spu.cpp 109-311): the mix, and *)
(* the return when no buffer has been asked for yet.                       *)
(***************************************************************************)
RunSampleMix(limit) ==
    /\ ppc = "idle"
    /\ ticks < limit
    /\ MixChannels
    /\ ticks' = ticks + 1
    /\ IF bufferSize = 0
       THEN ppc' = "idle" /\ pframe' = pframe
       ELSE ppc' = "write" /\ pframe' = MixedFrame
    /\ UNCHANGED <<envVars, bufVars, pbuf, cpc, ccount, cwait, ci, csrc, cout, histVars>>

(***************************************************************************)
(* The state after construction (spu.h 96-145).                            *)
(***************************************************************************)
Silence == <<0, 0>>

NoExpectation == [frame |-> Silence, out |-> <<>>, valid |-> FALSE]

InitChannels ==
    /\ soundCnt = [i \in Channels |-> <<0, 0>>]
    /\ soundSad = [i \in Channels |-> 0]
    /\ soundTmr = [i \in Channels |-> 0]
    /\ soundPnt = [i \in Channels |-> 0]
    /\ soundLen = [i \in Channels |-> 0]
    /\ mainSoundCnt = 0
    /\ soundBias = 0
    /\ soundCurrent = [i \in Channels |-> 0]
    /\ soundTimers = [i \in Channels |-> 0]
    /\ adpcmValue = [i \in Channels |-> 0]
    /\ adpcmIndex = [i \in Channels |-> 0]
    /\ adpcmToggle = [i \in Channels |-> FALSE]
    /\ adpcmLoopValue = [i \in Channels |-> 0]
    /\ adpcmLoopIndex = [i \in Channels |-> 0]
    /\ dutyCycles = [k \in 0..5 |-> 0]
    /\ noiseValues = [k \in 0..1 |-> 0]
    /\ ev = NoEvent
    /\ ticks = 0
    /\ loopSeen = [i \in Channels |-> <<FALSE, 0, 0>>]
    /\ ended = {}

\* both threads outside their functions
InitThreads ==
    /\ mutex = "free"
    /\ ppc = "idle"
    /\ pframe = Silence
    /\ pbuf = 0
    /\ cpc = "idle"
    /\ ccount = 0
    /\ cwait = FALSE
    /\ ci = 0
    /\ csrc = 0
    /\ cout = <<>>
    /\ handed = {}
    /\ lastOut = [set |-> FALSE, block |-> <<>>, fresh |-> FALSE, taken |-> FALSE]
    /\ cexpect = NoExpectation
    /\ cswapped = FALSE
    /\ fault = "none"

InitSpu ==
    /\ InitChannels
    /\ InitThreads
    /\ bufferIn = 0
    /\ bufferOut = 0
    /\ bufferSize = 0
    /\ bufferPointer = 0
    /\ heap = [b \in 1..2 |-> [alloc |-> FALSE, data |-> <<>>]]
    /\ calls = 0

(***************************************************************************)
(* SpecChan: the emulated program writes the registers of one channel and  *)
(* the emulation thread runs runSample, before the audio thread has asked  *)
(* for samples (bufferSize = 0).                                           *)
(***************************************************************************)
InitChan ==
    /\ InitSpu
    /\ active \in DrivenChannels
    /\ memWord \in (IF active = 1 THEN MemWords ELSE {<<0, 4660>>})
    /\ limitFps = TRUE
    /\ ready = FALSE

RunSample == RunSampleMix(MaxTicks)

NextChan ==
    \/ \E w \in CntWrites(active) : WriteSoundCnt(active, w[1], w[2])
    \/ \E v \in SadValues : WriteSoundSad(active, Full32, v)
    \/ \E v \in TmrValues : WriteSoundTmr(active, 65535, v)
    \/ \E v \in PntValues : WriteSoundPnt(active, 65535, v)
    \/ \E v \in LenValues : WriteSoundLen(active, Full32, v)
    \/ RunSample

SpecChan == InitChan /\ [][NextChan]_vars

(***************************************************************************)
(* SpecTimer: the emulated program sets channel 0 up as a one-shot PCM8    *)
(* channel, writing its address and reload value while the channel is     *)
(* disabled, and then lets it play: every register write comes before the  *)
(* first tick.  An enabled channel therefore started at soundSad with its  *)
(* timer seeded with soundTmr, and ticks counts the ticks since.  soundLen *)
(* stays 0, so the data never ends and soundCurrent - soundSad counts the  *)
(* decode-advances.                                                        *)
(***************************************************************************)
\* reload values: a period of 65536 cycles, of 32768, of 513, of 512, of 300,
\* of 3 and of 1
TimerReloads == {0, 32768, 65023, 65024, 65236, 65533, 65535}

InitTimer ==
    /\ InitSpu
    /\ active = 0
    /\ memWord = <<0, 4660>>
    /\ limitFps = TRUE
    /\ ready = FALSE

RunSampleTimer == RunSampleMix(MaxTimerTicks)

NextTimer ==
    \/ ticks = 0 /\ ~Enabled(soundCnt[0])
          /\ \E v \in TimerReloads : WriteSoundTmr(0, 65535, v)
    \/ ticks = 0 /\ ~Enabled(soundCnt[0])
          /\ \E v \in SadValues : WriteSoundSad(0, Full32, v)
    \/ ticks = 0 /\ \E en \in {0, 1} : WriteSoundCnt(0, Full32, CntValue(en, 0, 2))
    \/ RunSampleTimer

SpecTimer == InitTimer /\ [][NextTimer]_vars

(***************************************************************************)
(* SpecAdpcm: the emulated program plays ADPCM data on channel 1, stops    *)
(* the channel, uses it as a PCM8 channel or leaves it an ADPCM channel,   *)
(* and starts it again.  The data are the bytes 34 12 00 00.               *)
(***************************************************************************)
\* SOUNDCNT values: ADPCM enabled (looping, one-shot) and disabled, and
\* PCM8 disabled
AdpcmCntValues ==
    { CntValue(1, 2, 1), CntValue(1, 2, 2), CntValue(0, 2, 1), CntValue(0, 0, 1) }

AdpcmLenValues == { <<0, 1>>, <<0, 2>> }

InitAdpcm ==
    /\ InitSpu
    /\ active = 1
    /\ memWord = <<0, 4660>>
    /\ limitFps = TRUE
    /\ ready = FALSE

RunSampleAdpcm == RunSampleMix(MaxTicks)

NextAdpcm ==
    \/ \E v \in AdpcmCntValues : WriteSoundCnt(1, Full32, v)
    \/ WriteSoundSad(1, Full32, <<0, 256>>)
    \/ WriteSoundTmr(1, 65535, 65408)
    \/ \E v \in AdpcmLenValues : WriteSoundLen(1, Full32, v)
    \/ RunSampleAdpcm

SpecAdpcm == InitAdpcm /\ [][NextAdpcm]_vars

(***************************************************************************)
(* SpecReg: the emulated program writes every register of channel 0 and    *)
(* the global registers, at any time, with values that have every bit set  *)
(* and with masks that select a part of the register, and makes channel 0  *)
(* a one-shot PCM8 channel that runSample plays to its end.                *)
(***************************************************************************)
\* <<mask, value>> of the SOUNDCNT writes; the write of the upper half
\* enables a one-shot PCM8 channel
RegCntWrites ==
    { <<Full32, AllOnes32>>, <<LowHalf32, AllOnes32>>,
      <<HighHalf32, <<32768 + 4096 + 64, 0>>>> }

RegLenValues == { <<0, 1>>, AllOnes32 }

InitReg ==
    /\ InitSpu
    /\ active = 0
    /\ memWord = <<0, 4660>>
    /\ limitFps = TRUE
    /\ ready = FALSE

RunSampleReg == RunSampleMix(MaxTicks)

NextReg ==
    \/ \E w \in RegCntWrites : WriteSoundCnt(0, w[1], w[2])
    \/ WriteSoundSad(0, Full32, AllOnes32)
    \/ WriteSoundTmr(0, 65535, 65408)
    \/ WriteSoundPnt(0, 255, 65535)
    \/ \E v \in RegLenValues : WriteSoundLen(0, Full32, v)
    \/ WriteMainSoundCnt(65280, 65535)
    \/ WriteSoundBias(65535, 65535)
    \/ RunSampleReg

SpecReg == InitReg /\ [][NextReg]_vars


(***************************************************************************)
(* The buffer exchange (spu.cpp 54-107 and 311-344).  The audio thread     *)
(* calls getSamples while the emulation thread calls runSample; a step is  *)
(* one statement's access to the shared state.  mutex is "free" or names   *)
(* the thread inside mutex.lock() .. mutex.unlock().                       *)
(***************************************************************************)
\* the largest count a getSamples call asks for
MaxCount == 2
\* getSamples calls in one behaviour
MaxCalls == 1
\* runSample calls in one behaviour of SpecBuf
MaxFrames == 6

\* A frame that new uint32_t[count] left unwritten has an indeterminate
\* value: a read of it yields any of these
Indeterminate == <<-1, -1>>
GarbageFrames == {Silence, <<43690, 43690>>}
ReadFrames(cell) == IF cell = Indeterminate THEN GarbageFrames ELSE {cell}

\* new uint32_t[count]
NewBlock(count) == [alloc |-> TRUE, data |-> [k \in 1..count |-> Indeterminate]]
FreeBlocks == {b \in DOMAIN heap : ~heap[b].alloc}
\* the allocator hands out the lowest free block
FreshBlock == CHOOSE b \in FreeBlocks : \A c \in FreeBlocks : b <= c

\* getSamples(count), up to if (bufferSize != count) (spu.cpp 54-57)
GetSamples(count) ==
    /\ fault = "none"
    /\ cpc = "idle"
    /\ calls < MaxCalls
    /\ calls' = calls + 1
    /\ ccount' = count
    /\ cwait' = TRUE
    /\ cpc' = IF bufferSize # count THEN "deleteIn" ELSE "lock"
    /\ cswapped' = FALSE
    /\ cexpect' = [frame |-> IF lastOut.set THEN lastOut.block[Len(lastOut.block)]
                             ELSE Silence,
                   out   |-> <<>>,
                   valid |-> FALSE]
    /\ UNCHANGED <<regVars, runVars, envVars, ev, ticks, loopSeen, ended, bufVars,
                   ppc, pframe, pbuf, ci, csrc, cout, handed, lastOut, fault>>

\* delete[] p
Delete(p) ==
    IF p = 0 THEN heap' = heap /\ fault' = fault
    ELSE IF heap[p].alloc
         THEN heap' = [heap EXCEPT ![p].alloc = FALSE] /\ fault' = fault
         ELSE heap' = heap /\ fault' = "delete of a freed buffer"

\* delete[] bufferIn (spu.cpp 59)
ConsDeleteIn ==
    /\ fault = "none"
    /\ cpc = "deleteIn"
    /\ Delete(bufferIn)
    /\ cpc' = "deleteOut"
    /\ UNCHANGED <<regVars, runVars, envVars, ev, ticks, loopSeen, ended,
                   bufferIn, bufferOut, bufferSize, bufferPointer, ready, mutex,
                   ppc, pframe, pbuf, ccount, cwait, ci, csrc, cout,
                   calls, handed, lastOut, cexpect, cswapped>>

\* delete[] bufferOut (spu.cpp 60)
ConsDeleteOut ==
    /\ fault = "none"
    /\ cpc = "deleteOut"
    /\ Delete(bufferOut)
    /\ cpc' = "newIn"
    /\ lastOut' = [set |-> FALSE, block |-> <<>>, fresh |-> FALSE, taken |-> FALSE]
    /\ handed' = {}
    /\ UNCHANGED <<regVars, runVars, envVars, ev, ticks, loopSeen, ended,
                   bufferIn, bufferOut, bufferSize, bufferPointer, ready, mutex,
                   ppc, pframe, pbuf, ccount, cwait, ci, csrc, cout,
                   calls, cexpect, cswapped>>

\* bufferIn = new uint32_t[count] (spu.cpp 61)
ConsNewIn ==
    /\ fault = "none"
    /\ cpc = "newIn"
    /\ heap' = [heap EXCEPT ![FreshBlock] = NewBlock(ccount)]
    /\ bufferIn' = FreshBlock
    /\ cpc' = "newOut"
    /\ UNCHANGED <<regVars, runVars, envVars, ev, ticks, loopSeen, ended,
                   bufferOut, bufferSize, bufferPointer, ready, mutex,
                   ppc, pframe, pbuf, ccount, cwait, ci, csrc, cout, histVars>>

\* bufferOut = new uint32_t[count] (spu.cpp 62)
ConsNewOut ==
    /\ fault = "none"
    /\ cpc = "newOut"
    /\ heap' = [heap EXCEPT ![FreshBlock] = NewBlock(ccount)]
    /\ bufferOut' = FreshBlock
    /\ cpc' = "setSize"
    /\ UNCHANGED <<regVars, runVars, envVars, ev, ticks, loopSeen, ended,
                   bufferIn, bufferSize, bufferPointer, ready, mutex,
                   ppc, pframe, pbuf, ccount, cwait, ci, csrc, cout, histVars>>

\* bufferSize = count (spu.cpp 63)
ConsSetSize ==
    /\ fault = "none"
    /\ cpc = "setSize"
    /\ bufferSize' = ccount
    /\ cpc' = "setPointer"
    /\ UNCHANGED <<regVars, runVars, envVars, ev, ticks, loopSeen, ended,
                   bufferIn, bufferOut, bufferPointer, ready, mutex, heap,
                   ppc, pframe, pbuf, ccount, cwait, ci, csrc, cout, histVars>>

\* bufferPointer = 0 (spu.cpp 64)
ConsSetPointer ==
    /\ fault = "none"
    /\ cpc = "setPointer"
    /\ bufferPointer' = 0
    /\ cpc' = "lock"
    /\ UNCHANGED <<regVars, runVars, envVars, ev, ticks, loopSeen, ended,
                   bufferIn, bufferOut, bufferSize, ready, mutex, heap,
                   ppc, pframe, pbuf, ccount, cwait, ci, csrc, cout, histVars>>

\* mutex.lock() in the wait loop (spu.cpp 77)
ConsLock ==
    /\ fault = "none"
    /\ cpc = "lock"
    /\ mutex = "free"
    /\ mutex' = "consumer"
    /\ cpc' = "check"
    /\ UNCHANGED <<regVars, runVars, envVars, ev, ticks, loopSeen, ended,
                   bufferIn, bufferOut, bufferSize, bufferPointer, ready, heap,
                   ppc, pframe, pbuf, ccount, cwait, ci, csrc, cout, histVars>>

\* if (ready) wait = false; mutex.unlock(); then the loop's exit test and
\* out = new uint32_t[count] (spu.cpp 78-87).  The clock decides whether a
\* wait that did not find ready goes on or has taken too long.
ConsCheck ==
    /\ fault = "none"
    /\ cpc = "check"
    /\ mutex' = "free"
    /\ \/ /\ ready
          /\ cwait' = FALSE
          /\ cpc' = "copy"
          /\ cout' = [k \in 1..ccount |-> Indeterminate]
          /\ cexpect' = [cexpect EXCEPT
                           !.valid = lastOut.fresh /\ Len(lastOut.block) = ccount]
       \/ /\ ~ready
          /\ cpc' = "lock"
          /\ UNCHANGED <<cwait, cout, cexpect>>
       \/ /\ ~ready
          /\ cpc' = "fill"
          /\ cout' = [k \in 1..ccount |-> Indeterminate]
          /\ cexpect' = [cexpect EXCEPT !.out = heap[bufferOut].data]
          /\ UNCHANGED cwait
    /\ UNCHANGED <<regVars, runVars, envVars, ev, ticks, loopSeen, ended,
                   bufferIn, bufferOut, bufferSize, bufferPointer, ready, heap,
                   ppc, pframe, pbuf, ccount, ci, csrc,
                   calls, handed, lastOut, cswapped, fault>>

\* out[i] = bufferOut[count - 1]; i++ (spu.cpp 92-93)
ConsFill ==
    /\ fault = "none"
    /\ cpc = "fill"
    /\ \E f \in ReadFrames(heap[bufferOut].data[ccount]) :
          cout' = [cout EXCEPT ![ci + 1] = f]
    /\ ci' = ci + 1
    /\ cpc' = IF ci + 1 < ccount THEN "fill" ELSE "lockClear"
    /\ UNCHANGED <<regVars, runVars, envVars, ev, ticks, loopSeen, ended, bufVars,
                   ppc, pframe, pbuf, ccount, cwait, csrc, histVars>>

\* memcpy(out, bufferOut, count * sizeof(uint32_t)), frame by frame: the
\* call reads bufferOut once (spu.cpp 98)
ConsCopy ==
    LET src == IF ci = 0 THEN bufferOut ELSE csrc
    IN  /\ fault = "none"
        /\ cpc = "copy"
        /\ csrc' = src
        /\ \E f \in ReadFrames(heap[src].data[ci + 1]) :
              cout' = [cout EXCEPT ![ci + 1] = f]
        /\ ci' = ci + 1
        /\ cpc' = IF ci + 1 < ccount THEN "copy" ELSE "lockClear"
        /\ lastOut' = [lastOut EXCEPT
                         !.taken = @ \/ (ci + 1 = ccount /\ src = bufferOut)]
        /\ UNCHANGED <<regVars, runVars, envVars, ev, ticks, loopSeen, ended, bufVars,
                       ppc, pframe, pbuf, ccount, cwait,
                       calls, handed, cexpect, cswapped, fault>>

\* mutex.lock() before the flag is cleared (spu.cpp 102)
ConsLockClear ==
    /\ fault = "none"
    /\ cpc = "lockClear"
    /\ mutex = "free"
    /\ mutex' = "consumer"
    /\ cpc' = "clear"
    /\ UNCHANGED <<regVars, runVars, envVars, ev, ticks, loopSeen, ended,
                   bufferIn, bufferOut, bufferSize, bufferPointer, ready, heap,
                   ppc, pframe, pbuf, ccount, cwait, ci, csrc, cout, histVars>>

\* ready = false; mutex.unlock(); return out (spu.cpp 103-106): the block
\* out is the caller's from here on, and the call's locals are gone
ConsClear ==
    /\ fault = "none"
    /\ cpc = "clear"
    /\ ready' = FALSE
    /\ mutex' = "free"
    /\ cpc' = "idle"
    /\ ccount' = 0
    /\ cwait' = FALSE
    /\ ci' = 0
    /\ csrc' = 0
    /\ cout' = <<>>
    /\ lastOut' = [lastOut EXCEPT !.fresh = FALSE]
    /\ cexpect' = NoExpectation
    /\ cswapped' = FALSE
    /\ UNCHANGED <<regVars, runVars, envVars, ev, ticks, loopSeen, ended,
                   bufferIn, bufferOut, bufferSize, bufferPointer, heap,
                   ppc, pframe, pbuf, calls, handed, fault>>

(***************************************************************************)
(* runSample from its write to the buffer (spu.cpp 313-344).               *)
(***************************************************************************)
\* bufferIn[bufferPointer++] = frame; if (bufferPointer == bufferSize), and
\* if (Settings::getLimitFps()) (spu.cpp 314-321)
ProdWrite ==
    /\ fault = "none"
    /\ ppc = "write"
    /\ IF bufferIn = 0 \/ ~heap[bufferIn].alloc
       THEN /\ fault' = "write to a freed buffer"
            /\ UNCHANGED <<heap, bufferPointer, ppc>>
       ELSE IF bufferPointer >= Len(heap[bufferIn].data)
            THEN /\ fault' = "write past the buffer"
                 /\ UNCHANGED <<heap, bufferPointer, ppc>>
            ELSE /\ heap' = [heap EXCEPT ![bufferIn].data[bufferPointer + 1] = pframe]
                 /\ bufferPointer' = bufferPointer + 1
                 /\ ppc' = IF bufferPointer + 1 # bufferSize THEN "idle"
                           ELSE IF limitFps THEN "waitLock" ELSE "swap"
                 /\ fault' = fault
    /\ UNCHANGED <<regVars, runVars, envVars, ev, ticks, loopSeen, ended,
                   bufferIn, bufferOut, bufferSize, ready, mutex,
                   pframe, pbuf, cpc, ccount, cwait, ci, csrc, cout,
                   calls, handed, lastOut, cexpect, cswapped>>

\* mutex.lock() in the wait loop (spu.cpp 326)
ProdWaitLock ==
    /\ fault = "none"
    /\ ppc = "waitLock"
    /\ mutex = "free"
    /\ mutex' = "producer"
    /\ ppc' = "waitCheck"
    /\ UNCHANGED <<regVars, runVars, envVars, ev, ticks, loopSeen, ended,
                   bufferIn, bufferOut, bufferSize, bufferPointer, ready, heap,
                   pframe, pbuf, cpc, ccount, cwait, ci, csrc, cout, histVars>>

\* the wait is over whatever the flag says
WaitOverAlways(flag) == TRUE

\* if (!ready) wait = false (spu.cpp 327)
WaitOver(flag) == ~flag

\* if (!ready) wait = false; mutex.unlock(); while (wait) (spu.cpp 324-329)
ProdWaitCheck ==
    /\ fault = "none"
    /\ ppc = "waitCheck"
    /\ mutex' = "free"
    /\ ppc' = IF WaitOver(ready) THEN "swap" ELSE "waitLock"
    /\ UNCHANGED <<regVars, runVars, envVars, ev, ticks, loopSeen, ended,
                   bufferIn, bufferOut, bufferSize, bufferPointer, ready, heap,
                   pframe, pbuf, cpc, ccount, cwait, ci, csrc, cout, histVars>>

\* uint32_t *buffer = bufferOut; bufferOut = bufferIn (spu.cpp 333-334)
ProdSwap ==
    /\ fault = "none"
    /\ ppc = "swap"
    /\ pbuf' = bufferOut
    /\ bufferOut' = bufferIn
    /\ ppc' = "swap2"
    /\ handed' = handed \cup {heap[bufferIn].data}
    /\ lastOut' = [lastOut EXCEPT !.set = TRUE, !.block = heap[bufferIn].data,
                                   !.taken = FALSE]
    /\ cswapped' = (cswapped \/ cpc # "idle")
    /\ UNCHANGED <<regVars, runVars, envVars, ev, ticks, loopSeen, ended,
                   bufferIn, bufferSize, bufferPointer, ready, mutex, heap,
                   pframe, cpc, ccount, cwait, ci, csrc, cout,
                   calls, cexpect, fault>>

\* bufferIn = buffer (spu.cpp 335)
ProdSwap2 ==
    /\ fault = "none"
    /\ ppc = "swap2"
    /\ bufferIn' = pbuf
    /\ ppc' = "setLock"
    /\ cswapped' = (cswapped \/ cpc # "idle")
    /\ UNCHANGED <<regVars, runVars, envVars, ev, ticks, loopSeen, ended,
                   bufferOut, bufferSize, bufferPointer, ready, mutex, heap,
                   pframe, pbuf, cpc, ccount, cwait, ci, csrc, cout,
                   calls, handed, lastOut, cexpect, fault>>

\* mutex.lock() before the flag is set (spu.cpp 338)
ProdSetLock ==
    /\ fault = "none"
    /\ ppc = "setLock"
    /\ mutex = "free"
    /\ mutex' = "producer"
    /\ ppc' = "setReady"
    /\ UNCHANGED <<regVars, runVars, envVars, ev, ticks, loopSeen, ended,
                   bufferIn, bufferOut, bufferSize, bufferPointer, ready, heap,
                   pframe, pbuf, cpc, ccount, cwait, ci, csrc, cout, histVars>>

\* ready = true; mutex.unlock() (spu.cpp 339-340)
ProdSetReady ==
    /\ fault = "none"
    /\ ppc = "setReady"
    /\ ready' = TRUE
    /\ mutex' = "free"
    /\ ppc' = "reset"
    /\ lastOut' = [lastOut EXCEPT !.fresh = lastOut.set]
    /\ cswapped' = (cswapped \/ cpc # "idle")
    /\ UNCHANGED <<regVars, runVars, envVars, ev, ticks, loopSeen, ended,
                   bufferIn, bufferOut, bufferSize, bufferPointer, heap,
                   pframe, pbuf, cpc, ccount, cwait, ci, csrc, cout,
                   calls, handed, cexpect, fault>>

\* bufferPointer = 0 (spu.cpp 343)
ProdReset ==
    /\ fault = "none"
    /\ ppc = "reset"
    /\ bufferPointer' = 0
    /\ ppc' = "idle"
    /\ UNCHANGED <<regVars, runVars, envVars, ev, ticks, loopSeen, ended,
                   bufferIn, bufferOut, bufferSize, ready, mutex, heap,
                   pframe, pbuf, cpc, ccount, cwait, ci, csrc, cout, histVars>>

(***************************************************************************)
(* SpecBuf: the audio thread calls getSamples while the emulation thread   *)
(* calls runSample and, between two calls, writes SOUNDBIAS.  No channel   *)
(* is enabled, so a frame is the bias level.  ready has no initializer     *)
(* (spu.h 101) and starts with either value.                               *)
(***************************************************************************)
InitBuf ==
    /\ InitSpu
    /\ active = 0
    /\ memWord = <<0, 4660>>
    /\ limitFps \in BOOLEAN
    /\ ready \in BOOLEAN

RunSampleBuf == fault = "none" /\ RunSampleMix(MaxFrames)

NextBuf ==
    \/ \E count \in 1..MaxCount : GetSamples(count)
    \/ ConsDeleteIn
    \/ ConsDeleteOut
    \/ ConsNewIn
    \/ ConsNewOut
    \/ ConsSetSize
    \/ ConsSetPointer
    \/ ConsLock
    \/ ConsCheck
    \/ ConsFill
    \/ ConsCopy
    \/ ConsLockClear
    \/ ConsClear
    \/ RunSampleBuf
    \/ ProdWrite
    \/ ProdWaitLock
    \/ ProdWaitCheck
    \/ ProdSwap
    \/ ProdSwap2
    \/ ProdSetLock
    \/ ProdSetReady
    \/ ProdReset
    \/ fault = "none" /\ \E v \in BiasValues : WriteSoundBias(1023, v)

SpecBuf == InitBuf /\ [][NextBuf]_vars

(***************************************************************************)
(* SpecResize: the audio thread has called getSamples(MaxCount) once       *)
(* before the emulation thread started and given up waiting, so the        *)
(* buffers hold MaxCount frames each and ready is false.  With rate        *)
(* limiting enabled the emulation thread now calls runSample while the     *)
(* audio thread calls getSamples again, for the same count or another.     *)
(***************************************************************************)
InitResize ==
    /\ InitChannels
    /\ InitThreads
    /\ active = 0
    /\ memWord = <<0, 4660>>
    /\ limitFps = TRUE
    /\ ready = FALSE
    /\ heap = [b \in 1..2 |-> NewBlock(MaxCount)]
    /\ bufferIn = 1
    /\ bufferOut = 2
    /\ bufferSize = MaxCount
    /\ bufferPointer = 0
    /\ calls = 0

SpecResize == InitResize /\ [][NextBuf]_vars

(***************************************************************************)
(* SpecWait: SpecResize with the scheduling the threads can count on.      *)
(* Either thread, once inside getSamples or runSample, takes its next step *)
(* if that step stays possible: mutex.lock() is possible only while the    *)
(* mutex is free, and std::mutex promises no order among the threads that  *)
(* want it.  The clock of the audio thread's wait loop runs on, so a wait  *)
(* that keeps finding ready false takes too long in the end.               *)
(***************************************************************************)
ProducerStep ==
    \/ ProdWrite
    \/ ProdWaitLock
    \/ ProdWaitCheck
    \/ ProdSwap
    \/ ProdSwap2
    \/ ProdSetLock
    \/ ProdSetReady
    \/ ProdReset

ConsumerStep ==
    \/ ConsDeleteIn
    \/ ConsDeleteOut
    \/ ConsNewIn
    \/ ConsNewOut
    \/ ConsSetSize
    \/ ConsSetPointer
    \/ ConsLock
    \/ ConsCheck
    \/ ConsFill
    \/ ConsCopy
    \/ ConsLockClear
    \/ ConsClear

\* the wait loop's exit by the clock (spu.cpp 82-83)
ConsTimeout == ConsCheck /\ cpc' = "fill"

SpecWait ==
    /\ InitResize
    /\ [][NextBuf]_vars
    /\ WF_vars(ProducerStep)
    /\ WF_vars(ConsumerStep)
    /\ SF_vars(ConsTimeout)

(***************************************************************************)
(* SpecMix: the emulated program sets up channel 0 as a looping PCM16      *)
(* channel and writes the global registers, with values that have every    *)
(* bit set and with partial masks, and then lets the emulation thread run  *)
(* runSample: every register write comes before the first tick.  The       *)
(* audio thread has asked for one frame once and given up waiting, so the  *)
(* buffers hold one frame each, and it does not call again; without rate   *)
(* limiting the producer never waits for it.                               *)
(***************************************************************************)
\* <<divider, multiplier, pan>> selectors of the SOUNDCNT writes
MixSelectors == {<<0, 64, 64>>, <<1, 127, 0>>, <<3, 127, 127>>, <<3, 64, 127>>}

\* an enabled looping PCM16 channel with the selectors sel
MixCnt(sel) == <<32768 + 8192 + 2048 + sel[3], sel[1] * 256 + sel[2]>>

MixCntWrites ==
    {<<Full32, MixCnt(sel)>> : sel \in MixSelectors}
    \cup {<<Full32, AllOnes32>>, <<LowHalf32, AllOnes32>>}

MainVolumes == {64, 127, 65535}
MixBiases == {512, 65535}

InitMix ==
    /\ InitChannels
    /\ InitThreads
    /\ active = 0
    /\ memWord \in {<<0, 4660>>, <<0, 32768>>}
    /\ limitFps = FALSE
    /\ ready = FALSE
    /\ heap = [b \in 1..2 |-> NewBlock(1)]
    /\ bufferIn = 1
    /\ bufferOut = 2
    /\ bufferSize = 1
    /\ bufferPointer = 0
    /\ calls = 1

RunSampleWrite == fault = "none" /\ RunSampleMix(MaxTicks)

NextMix ==
    \/ ticks = 0 /\ \E w \in MixCntWrites : WriteSoundCnt(0, w[1], w[2])
    \/ ticks = 0 /\ \E v \in MainVolumes : WriteMainSoundCnt(65535, v)
    \/ ticks = 0 /\ WriteMainSoundCnt(65280, 65535)
    \/ ticks = 0 /\ \E v \in MixBiases : WriteSoundBias(65535, v)
    \/ RunSampleWrite
    \/ ProdWrite
    \/ ProdSwap
    \/ ProdSwap2
    \/ ProdSetLock
    \/ ProdSetReady
    \/ ProdReset

SpecMix == InitMix /\ [][NextMix]_vars

(***************************************************************************)
(* Properties of the buffer exchange, checked under SpecBuf.               *)
(***************************************************************************)
\* the block getSamples is about to return is complete
Returning == cpc \in {"lockClear", "clear"}

\* C1: a getSamples(n) call that finds ready set for a block F1..Fn the
\* producer handed over returns that block whole: the frames of one block the
\* producer filled and swapped out, in production order, none of them lost,
\* repeated or taken from another block.
C1_RoundTrip ==
    (Returning /\ ~cwait /\ cexpect.valid) => cout \in handed

\* C2: the buffer identities are used only under the mutex: the producer is
\* never about to swap the buffers while the audio thread is about to read
\* bufferOut, and the audio thread is never reallocating the buffers while
\* the producer is about to write to bufferIn or to swap.
C2_LockDiscipline ==
    /\ ~(ppc \in {"swap", "swap2"} /\ (cpc = "fill" \/ (cpc = "copy" /\ ci = 0)))
    /\ ~(cpc \in {"deleteIn", "deleteOut", "newIn", "newOut"}
         /\ ppc \in {"write", "swap", "swap2"})

\* C3: with rate limiting enabled the producer swaps the buffers and sets
\* ready only in states where ready is false: from the swap until the flag
\* is set again, the out buffer it swaps away is not flagged ready.
C3_SwapOnlyWhenDrained ==
    (limitFps /\ ppc \in {"swap", "swap2", "setLock", "setReady"}) => ~ready

\* the producer, rate limited, is about to swap again after the block it
\* handed over before was taken and ready cleared
C3_Witness ==
    /\ limitFps
    /\ ppc = "swap"
    /\ bufferPointer = bufferSize
    /\ lastOut.set /\ ~lastOut.fresh
    /\ handed # {}

\* C4: a getSamples(n) call that gave up waiting, with no swap and no ready
\* set by the producer during the call, returns n frames equal to the last
\* frame of the block last handed over in the out buffer, or silence if none
\* was; it leaves the out buffer as it was, and ready is false afterwards.
C4_StarvationFallback ==
    [][(cpc = "clear" /\ cpc' = "idle" /\ cwait /\ ~cswapped) =>
          /\ cout = [k \in 1..ccount |-> cexpect.frame]
          /\ heap[bufferOut].data = cexpect.out
          /\ ~ready']_vars

(***************************************************************************)
(* Properties of the buffer exchange after the first call, checked under   *)
(* SpecResize.                                                             *)
(***************************************************************************)
\* C17: with rate limiting enabled and the block size unchanged, a block the
\* producer handed over and flagged ready has been copied out by a getSamples
\* call, timed-out calls included, when the producer is about to swap it back.
C17_NoLoss ==
    (limitFps /\ ppc = "swap" /\ lastOut.set) => lastOut.taken

\* the buffer memcpy reads in the step at hand
CopySource == IF ci = 0 THEN bufferOut ELSE csrc

\* C18: a getSamples call that found ready set copies only frames that
\* runSample wrote into the buffers since they were allocated, also when the
\* call itself reallocated them while ready was still set.
C18_OnlyProduced ==
    cpc = "copy" => heap[CopySource].data[ci + 1] # Indeterminate

\* C19: the producer writes in[cursor] only into an allocated buffer with
\* 0 <= cursor < capacity, and the cursor never exceeds the capacity, also
\* while getSamples reallocates the buffers.
C19_CursorBound ==
    /\ ppc = "write" => /\ bufferIn # 0
                        /\ heap[bufferIn].alloc
                        /\ bufferPointer < Len(heap[bufferIn].data)
                        /\ bufferPointer < bufferSize
    /\ bufferPointer <= bufferSize

Runtime(i) ==
    <<soundCurrent[i], soundTimers[i], adpcmValue[i], adpcmIndex[i], adpcmToggle[i],
      IF i \in 8..13 THEN dutyCycles[i - 8] ELSE 0,
      IF i >= 14 THEN noiseValues[i - 14] ELSE 0>>

WriteOps == {"writeSoundCnt", "writeSoundSad", "writeSoundTmr", "writeSoundPnt",
             "writeSoundLen", "writeMainSoundCnt", "writeSoundBias"}

\* C5: after any sequence of register writes and ticks, the ADPCM step index
\* of every channel (and the index saved for the loop restore) is in 0..88,
\* so every adpcmTable lookup is in bounds.
C5_IndexInRange ==
    \A i \in Channels : adpcmIndex[i] \in 0..88 /\ adpcmLoopIndex[i] \in 0..88

\* an ADPCM channel seeded from a header whose index field is 127 has been
\* decoded by a tick and stands at index 88
C5_Witness ==
    /\ ev.op = "runSample"
    /\ memWord = <<127, 32767>>
    /\ Enabled(soundCnt[1]) /\ Format(soundCnt[1]) = 2
    /\ soundCurrent[1] > soundSad[1] + 4
    /\ adpcmIndex[1] = 88

\* C6: the ADPCM predictor of every channel is in -32767..32767 at every
\* tick, after header seeding, after each decode and after a loop restore.
C6_ValueInRange ==
    \A i \in Channels : adpcmValue[i] \in -32767..32767

\* C7: a writeSoundCnt that takes the stored enable bit from 0 to 1 on a
\* channel whose format is ADPCM (set by an earlier write or by this one)
\* seeds the predictor and index from the header at soundSad, clears the
\* nibble toggle, and sets the address to soundSad + 4 and the timer to
\* soundTmr.
C7_EnableReinit ==
    (ev.op = "writeSoundCnt" /\ ev.rose /\ Format(soundCnt[ev.ch]) = 2) =>
        LET ch == ev.ch
            lo == memWord[2]
            field == memWord[1] % 128
        IN  /\ adpcmValue[ch] = (IF lo >= 32768 THEN lo - 65536 ELSE lo)
            /\ adpcmIndex[ch] = (IF field > 88 THEN 88 ELSE field)
            /\ adpcmToggle[ch] = FALSE
            /\ soundCurrent[ch] = soundSad[ch] + 4
            /\ soundTimers[ch] = soundTmr[ch]

\* C8: a register write after which the stored enable bit has not gone from
\* 0 to 1 (any writeSoundCnt without that transition, and every write of
\* another register) leaves the runtime state of every channel unchanged.
C8_ReinitOnlyOnTransition ==
    [][(ev'.op \in WriteOps /\ ~ev'.rose) =>
          \A i \in Channels : Runtime(i)' = Runtime(i)]_vars

\* C9: a channel whose decode-advance reaches the end of its data in a
\* repeat mode other than loop-infinite has its enable bit cleared; in every
\* later tick, until a register write enables it again, it adds zero to both
\* stereo sums and its address, timer and decoder state do not change.
C9_OneShotEnd ==
    [][ev'.op = "runSample" =>
          /\ \A i \in Channels : TickChannel(i).hitEnd => i \in ended'
          /\ \A i \in ended' : ~Enabled(soundCnt'[i])
          /\ \A i \in ended : /\ Contribution(i) = <<0, 0>>
                              /\ Runtime(i)' = Runtime(i)
                              /\ i \in ended']_vars

\* a tick has run over a channel that ended one-shot in an earlier tick
C9_Witness ==
    /\ ev.op = "runSample"
    /\ ~ev.hitEnd
    /\ ticks >= 2
    /\ active \in ended
    /\ soundCurrent[active] = EndAddr(active)

\* C10: every wrap of a loop-infinite channel sets the address to
\* soundSad + soundPnt * 4; for an ADPCM channel it clears the nibble toggle
\* and leaves the predictor and index the decoder had when the address last
\* stood at that loop point.
C10_LoopWrap ==
    ev.op = "runSample" => ev.wrapOk


\* C11: after every tick, the address of every enabled loop-infinite PCM8,
\* PCM16 or ADPCM channel lies in soundSad .. soundSad + (soundPnt +
\* soundLen) * 4 - 1, whatever the registers hold and however they were
\* rewritten while the channel played.
C11_AddressInRange ==
    ev.op = "runSample" =>
        \A i \in Channels :
            (Enabled(soundCnt[i]) /\ RepeatMode(soundCnt[i]) = 1 /\ Format(soundCnt[i]) # 3)
                => soundCurrent[i] >= soundSad[i] /\ soundCurrent[i] < EndAddr(i)

(***************************************************************************)
(* Properties of the ADPCM nibbles, checked under SpecAdpcm.               *)
(***************************************************************************)
\* C16: between its enable and the end of its data an ADPCM channel takes,
\* on successive timer reloads, the low nibble and then the high nibble of
\* the same byte: the first reload after the enable takes a low nibble, the
\* address moves by exactly 1 after every high nibble and never after a low
\* nibble.
C16_NibbleSequence ==
    /\ (ev.op = "writeSoundCnt" /\ ev.rose /\ Format(soundCnt[ev.ch]) = 2)
          => ~adpcmToggle[ev.ch]
    /\ ev.op = "runSample" => ev.nibOk

(***************************************************************************)
(* Properties of the channel timer, checked under SpecTimer.               *)
(***************************************************************************)
\* channel 0 plays PCM8 since it was enabled with the reload value r
PlaysWithReload(r) ==
    Enabled(soundCnt[0]) /\ Format(soundCnt[0]) = 0 /\ soundTmr[0] = r

\* C12 as the specification states it: a PCM8 channel enabled with
\* soundTmr = 0xFFFF has had exactly one decode-advance after 128 ticks:
\* soundCurrent = soundSad + 1.
C12_OneAdvanceIn128 ==
    (ticks = 128 /\ PlaysWithReload(65535)) => soundCurrent[0] = soundSad[0] + 1

\* C12 amended: a PCM8 channel enabled with soundTmr = 0xFFFF has 512
\* decode-advances in every tick, so after 128 ticks it has had 65536 of
\* them: soundCurrent = soundSad + 65536.
C12_Reload512PerTick ==
    PlaysWithReload(65535) =>
        /\ soundCurrent[0] = soundSad[0] + 512 * ticks
        /\ soundTimers[0] = 65535

\* the channel has played 128 ticks with soundTmr = 0xFFFF
C12_Witness ==
    /\ ticks = 128
    /\ PlaysWithReload(65535)
    /\ ev.op = "runSample"
    /\ soundCurrent[0] = soundSad[0] + 65536

\* C21: for a channel enabled with reload value R, its timer seeded to R, and
\* no register write afterwards, the reload loop of every tick terminates (it
\* makes at most 512 passes), the 16-bit accumulator is at least R after
\* every tick, and after N ticks the channel has had floor(512 * N /
\* (65536 - R)) decode-advances: a PCM8 channel stands at soundSad plus that
\* number.
C21_TimerArithmetic ==
    /\ [](\A r \in TimerReloads :
            PlaysWithReload(r) =>
                /\ soundTimers[0] >= r
                /\ soundCurrent[0] = soundSad[0] + ((512 * ticks) \div (65536 - r)))
    /\ [][\A r \in TimerReloads :
            (PlaysWithReload(r) /\ ev'.op = "runSample")
                => soundCurrent'[0] - soundCurrent[0] \in 0..512]_vars

\* the channel has played 128 ticks with a period of 300 cycles, which does
\* not divide 512: 218 decode-advances, one or two in a tick
C21_Witness ==
    /\ ticks = 128
    /\ PlaysWithReload(65236)
    /\ ev.op = "runSample"
    /\ soundCurrent[0] = soundSad[0] + 218
    /\ soundTimers[0] = 65236 + 136

(***************************************************************************)
(* Properties of the mix, checked under SpecMix.                           *)
(***************************************************************************)
\* runSample mixes a frame, and runSample stores it in the in buffer
Mixes == ppc = "idle" /\ ppc' = "write"
Stores == ppc = "write" /\ ppc' # "write" /\ fault' = "none"

\* (v - 0x200) << 5 for v in 0..1023
HalfValues == {(v - 512) * 32 : v \in 0..1023}

\* a 16-bit half of a frame as a signed value
SignedHalf(h) == IF h >= 32768 THEN h - 65536 ELSE h

\* C14: whatever the registers and the channel hold, each half of every
\* frame runSample writes to the in buffer is (v - 0x200) << 5 for a v in
\* 0..1023, so it lies in -16384..16352, and the frame holds the right half
\* in its upper and the left half in its lower 16 bits.
C14_OutputClamp ==
    [][/\ Mixes =>
            LET left  == Output(SumContribution(16, 1))
                right == Output(SumContribution(16, 2))
            IN  /\ left \in HalfValues /\ left \in -16384..16352
                /\ right \in HalfValues /\ right \in -16384..16352
                /\ pframe' = <<right % 65536, left % 65536>>
       /\ Stores =>
            /\ heap'[bufferIn].data[bufferPointer + 1] = pframe
            /\ SignedHalf(pframe[1]) \in HalfValues
            /\ SignedHalf(pframe[2]) \in HalfValues]_vars

\* a frame whose right half was clipped at the top is in the in buffer
C14_Witness ==
    /\ ppc = "swap"
    /\ heap[bufferIn].data = <<pframe>>
    /\ soundBias = 1023
    /\ Enabled(soundCnt[0]) /\ Format(soundCnt[0]) = 1
    /\ memWord = <<0, 4660>>
    /\ mainSoundCnt % 128 = 127
    /\ pframe[1] = 16352

\* a selector field as a factor: 127 stands for 128
Factor(f) == IF f = 127 THEN 128 ELSE f

\* C15: in the mix of a PCM16 sample d, a multiplier field of 127 leaves
\* the sample unchanged (128/128), a pan field of 127 gives the left side
\* the factor 0 and the right side 128, a master volume field of 127
\* scales by 128, divider 3 shifts by 4 - 4 = 0, and every other field
\* value f scales by f/128.
C15_MaxSelectors ==
    [][(Mixes /\ Enabled(soundCnt[0]) /\ Format(soundCnt[0]) = 1) =>
          LET cnt   == soundCnt[0]
              d     == Read16s(soundCurrent[0])
              shift == IF DivShift(cnt) = 3 THEN 0 ELSE 4 - DivShift(cnt)
              \* the sample with 11 fractional bits
              a     == d * (2 ^ shift) * Factor(MulFactor(cnt))
              side(f) == MulShr(MulShr(a, f, 10), Factor(mainSoundCnt % 128), 21)
              clip(x) == IF x < 0 THEN 0 ELSE IF x > 1023 THEN 1023 ELSE x
              half(f) == ((clip(side(f) + soundBias) - 512) * 32) % 65536
          IN  pframe' = <<half(Factor(Pan(cnt))), half(128 - Factor(Pan(cnt)))>>]_vars

\* a tick has mixed the sample 0x1234 with every selector at 127 and
\* divider 3: the left half is the bias level, the right half 4 above it
C15_Witness ==
    /\ ppc = "write"
    /\ soundCnt[0] = MixCnt(<<3, 127, 127>>)
    /\ mainSoundCnt % 128 = 127
    /\ soundBias = 512
    /\ memWord = <<0, 4660>>
    /\ pframe = <<128, 0>>

(***************************************************************************)
(* Properties of the registers, checked under SpecReg.                     *)
(***************************************************************************)
\* the register a write operation writes, as a 32-bit word, and the bits
\* of it that exist
Register(op, ch) ==
    CASE op = "writeSoundCnt"     -> soundCnt[ch]
      [] op = "writeSoundSad"     -> FromInt(soundSad[ch])
      [] op = "writeSoundTmr"     -> <<0, soundTmr[ch]>>
      [] op = "writeSoundPnt"     -> <<0, soundPnt[ch]>>
      [] op = "writeSoundLen"     -> FromInt(soundLen[ch])
      [] op = "writeMainSoundCnt" -> <<0, mainSoundCnt>>
      [] OTHER                    -> <<0, soundBias>>

HardwareMask(op) ==
    CASE op = "writeSoundCnt"     -> <<65407, 33663>>     \* 0xFF7F837F
      [] op = "writeSoundSad"     -> <<2047, 65532>>      \* 0x07FFFFFC
      [] op = "writeSoundTmr"     -> <<0, 65535>>
      [] op = "writeSoundPnt"     -> <<0, 65535>>
      [] op = "writeSoundLen"     -> <<63, 65535>>        \* 0x003FFFFF
      [] op = "writeMainSoundCnt" -> <<0, 49023>>         \* 0xBF7F
      [] OTHER                    -> <<0, 1023>>          \* 0x03FF

IsGlobal(op) == op \in {"writeMainSoundCnt", "writeSoundBias"}

\* the bits in which two words differ
Differ32(a, b) == And32(Or32(a, b), Not32(And32(a, b)))

\* the word a has no bit outside the mask m
Within32(a, m) == And32(a, Not32(m)) = <<0, 0>>

\* all the registers a write operation can write
RegisterFile(op) ==
    CASE op = "writeSoundCnt"     -> soundCnt
      [] op = "writeSoundSad"     -> soundSad
      [] op = "writeSoundTmr"     -> soundTmr
      [] op = "writeSoundPnt"     -> soundPnt
      [] op = "writeSoundLen"     -> soundLen
      [] op = "writeMainSoundCnt" -> mainSoundCnt
      [] OTHER                    -> soundBias

\* C13: a write changes only bits that both the caller's mask and the
\* register's hardware mask select, and no other register; so soundCnt has
\* no bit outside 0xFF7F837F, soundSad none outside 0x07FFFFFC, soundLen
\* none outside 0x003FFFFF, mainSoundCnt none outside 0xBF7F and soundBias
\* is at most 0x3FF in every reachable state; and runSample changes no
\* register but soundCnt, of which it only clears the enable bit.
C13_MaskedWrites ==
    /\ [](/\ \A op \in {"writeSoundCnt", "writeSoundSad", "writeSoundLen"} :
                \A ch \in Channels : Within32(Register(op, ch), HardwareMask(op))
          /\ Within32(<<0, mainSoundCnt>>, <<0, 49023>>)
          /\ soundBias <= 1023)
    /\ [][/\ \A op \in WriteOps : \A ch \in Channels :
               (ev'.op = op /\ ch = (IF IsGlobal(op) THEN 0 ELSE ev'.ch)) =>
                   /\ Within32(Differ32(Register(op, ch), Register(op, ch)'),
                                And32(ev'.mask, HardwareMask(op)))
                   /\ \A o \in WriteOps \ {op} : RegisterFile(o)' = RegisterFile(o)
                   /\ IsGlobal(op) \/ \A c \in Channels \ {ch} :
                                          RegisterFile(op)'[c] = RegisterFile(op)[c]
          /\ ev'.op = "runSample" =>
               /\ \A o \in WriteOps \ {"writeSoundCnt"} : RegisterFile(o)' = RegisterFile(o)
               /\ \A c \in Channels :
                      soundCnt'[c] \in {soundCnt[c], ClearEnable(soundCnt[c])}]_vars

\* every register has been written with all bits set, and a tick has then
\* ended the one-shot channel
C13_Witness ==
    /\ ev.op = "runSample" /\ ev.hitEnd
    /\ soundCnt[0] = <<4096 + 64, 33663>>
    /\ soundSad[0] = 134217724
    /\ soundPnt[0] = 0 /\ soundLen[0] = 1
    /\ mainSoundCnt = 48896
    /\ soundBias = 1023

==========================================================================
